---- MODULE Spec2Model ----
(***************************************************************************)
(* OCR timeout protection (tesseract_timeout_fix_working.py):              *)
(* TesseractTimeoutManager.run_with_timeout and its worker thread, the two *)
(* extractor profiles built on it (WorkingQuickOCR, WorkingFastScreenOCR)  *)
(* and WorkingOCRBatch.process_images.                                     *)
(*                                                                         *)
(* Threads are interleaved at every access to the manager's instance       *)
(* fields (result, exception, process_pids) and to the OS process table.   *)
(* A worker that is abandoned by a timed-out call keeps running and keeps  *)
(* writing the fields of the instance it was started on.                   *)
(***************************************************************************)
EXTENDS Integers, Sequences, FiniteSets, TLC

\* ------------------------------------------------------------------ bounds
\* run_with_timeout invocations / images handled in one behaviour
MaxCalls == 2
\* PIDs of the OS process table
MaxPid == 1
\* images in one process_images call
MaxBatch == 2

CallIds == 1..MaxCalls
Pids == 1..MaxPid
\* the client thread of the sequential specifications
Callers == {1}
\* the client threads when one instance is used from two threads
ConcCallers == {1, 2}

\* ------------------------------------------------------------------ values
\* Python values held by result / returned to callers
NoneV == [t |-> "none"]
Str(s) == [t |-> "str", s |-> s]
\* exception slot: None, or the exception object (a tuple naming it)
NoExc == <<>>

\* Python truthiness of a value (None and '' are falsy)
Truthy(v) == v # NoneV /\ v # Str(<<>>)

\* operations handed to run_with_timeout
Ret(v) == [kind |-> "ret", val |-> v]
Raise(e) == [kind |-> "raise", exc |-> e]
Hang == [kind |-> "hang"]

\* what a call gave its caller
Pending == [kind |-> "pending"]
Timeout == [kind |-> "timeout"]

\* operations a direct caller hands to its k-th run_with_timeout call: one that
\* returns None, one that returns an object of its own, one that raises an
\* exception of its own, one that never returns
DirectOps(k) == {Ret(NoneV), Ret(Str(<<"V", k>>)), Raise(<<"E", k>>), Hang}

\* ------------------------------------------------------------------ state
VARIABLES
    mgr,      \* manager instance -> [result, exception, pids (id of its list object)]
    heap,     \* list object id -> the PIDs appended to it
    worker,   \* call id -> worker thread: [pc, m, op, cl, idx, helper]
    caller,   \* caller thread -> its position and locals
    used,     \* number of call ids handed out
    procs,    \* PID -> "none" | "tess" | "other"  (OS process table)
    signalled,\* PIDs whose current process was sent terminate()
    hist,     \* call id -> what was observed about the call
    batchOut, \* what the last finished process_images call returned
    resize,   \* an image handed to preprocessing: its profile, its size, the size produced
    mon,      \* the AdvancedMonitoringSystem instance, its loop threads and its client
    fsys,     \* a target file, its '.backup' file and an apply_fixes_to_file call on it
    sched     \* the scheduled_tasks table, the clock and the daily_scheduler_loop task

vars == <<mgr, heap, worker, caller, used, procs, signalled, hist, batchOut, resize, mon, fsys, sched>>

Mgrs == {"guard", "quick", "fast"}

\* TesseractTimeoutManager.__init__
NewManager == [result |-> NoneV, exception |-> NoExc, pids |-> 0]

\* helper: 0, or the PID of the process the operation spawned, or -1 once that
\* process is gone
NoWorker == [pc |-> "none", m |-> "guard", op |-> Hang, cl |-> 0, idx |-> 0, helper |-> 0]

IdleCaller ==
    [pc |-> "idle", call |-> 0, api |-> "none", cl |-> 0, idx |-> 0,
     images |-> <<>>, i |-> 0, fast |-> FALSE, results |-> <<>>, slots |-> <<>>]

NoHist ==
    [api |-> "none", m |-> "guard", img |-> "none", outcome |-> Pending,
     inTime |-> FALSE, aliveAtWaitEnd |-> FALSE, aliveAtCheck |-> FALSE,
     ext |-> Pending, scanned |-> FALSE, helperInTime |-> FALSE,
     stuckAtWaitEnd |-> FALSE, given |-> <<>>, invoked |-> <<>>]

\* number of monitoring loop threads one behaviour may start
MaxLoops == 3

LoopIds == 1..MaxLoops

\* AdvancedMonitoringSystem.__init__ (monitoring_active = False, monitoring_thread
\* = None), no loop thread started, the client outside any call
NewMonitoringSystem ==
    [active |-> FALSE, thread |-> 0, loops |-> [n \in LoopIds |-> "none"],
     started |-> 0, client |-> "idle"]

\* no file is being fixed
Missing == <<"<missing>">>

NoFiles ==
    [target |-> Missing, backup |-> Missing, orig |-> Missing, pc |-> "none",
     new |-> Missing, changes |-> 0, failed |-> "none", ret |-> "none"]

\* schedule times of configure_scheduler, in minutes since midnight
T00 == 0
T08 == 480
T16 == 960

\* scheduler = None: daily_scheduler_loop has nothing to do; the clock is followed
\* from one minute before 16:00
NoScheduler ==
    [tasks |-> <<>>, now |-> T16 - 1, pc |-> "off", cur |-> 0, i |-> 0, last |-> -1,
     waited |-> 0, started |-> {}]

NoResize == [prof |-> "none", w |-> 0, h |-> 0, done |-> FALSE, out |-> <<0, 0>>]

InitCommon ==
    /\ mgr = [m \in Mgrs |-> NewManager]
    /\ heap = [l \in 0..MaxCalls |-> <<>>]
    /\ worker = [k \in CallIds |-> NoWorker]
    /\ caller = [c \in ConcCallers |-> IdleCaller]
    /\ used = 0
    /\ procs \in [Pids -> {"none", "tess"}]
    /\ signalled = {}
    /\ hist = [k \in CallIds |-> NoHist]
    /\ mon = NewMonitoringSystem
    /\ sched = NoScheduler
    /\ batchOut = [done |-> FALSE, images |-> <<>>, fast |-> FALSE, results |-> <<>>,
                   slots |-> <<>>]

\* ------------------------------------------------------------------ OS processes
\* a process appears under a free PID (a tesseract helper or anything else)
ProcSpawn(p) ==
    /\ procs[p] = "none"
    /\ \E name \in {"tess", "other"} : procs' = [procs EXCEPT ![p] = name]
    /\ UNCHANGED <<mgr, heap, worker, caller, used, signalled, hist, batchOut, resize, mon, fsys, sched>>

\* a process exits (on its own or after terminate())
ProcExit(p) ==
    /\ procs[p] # "none"
    /\ procs' = [procs EXCEPT ![p] = "none"]
    /\ signalled' = signalled \ {p}
    /\ worker' = [k \in CallIds |->
          IF worker[k].helper = p THEN [worker[k] EXCEPT !.helper = -1] ELSE worker[k]]
    /\ UNCHANGED <<mgr, heap, caller, used, hist, batchOut, resize, mon, fsys, sched>>

\* the check of _cleanup_processes without the test of the process name
IsTargetAnyName(p) == procs[p] # "none"

\* psutil.Process(pid); proc.is_running() and 'tesseract' in proc.name().lower()
IsTarget(p) == procs[p] = "tess"

\* the PIDs process_iter yields whose name contains 'tesseract', in PID order
RECURSIVE ScanFrom(_)
ScanFrom(p) ==
    IF p > MaxPid THEN <<>>
    ELSE (IF IsTarget(p) THEN <<p>> ELSE <<>>) \o ScanFrom(p + 1)

\* ------------------------------------------------------------------ OCR layer
Images == {"bad", "err", "hang", "blank", "A", "B"}

\* what pytesseract.image_to_string gives for an image the engine can read
EngineRaw(img) ==
    CASE img = "blank" -> <<" ", "\n">>
      [] img = "A" -> <<"A", "\n">>
      [] img = "B" -> <<" ", "B">>
      [] OTHER -> <<>>

IsSpace(ch) == ch \in {" ", "\n", "\t"}

RECURSIVE LStrip(_)
LStrip(s) == IF s # <<>> /\ IsSpace(Head(s)) THEN LStrip(Tail(s)) ELSE s

RECURSIVE RStrip(_)
RStrip(s) ==
    IF s # <<>> /\ IsSpace(s[Len(s)]) THEN RStrip(SubSeq(s, 1, Len(s) - 1)) ELSE s

\* str.strip()
Strip(s) == RStrip(LStrip(s))

\* _ocr_operation / _fast_ocr_operation applied to a preprocessed image
OcrOperation(img) ==
    CASE img = "err" -> Raise(<<"TesseractError">>)
      [] img = "hang" -> Hang
      [] OTHER -> Ret(Str(Strip(EngineRaw(img))))

\* _preprocess_image / _preprocess_for_speed on a path or handle that cannot be decoded
PreprocessRaises(img) == img = "bad"

\* extract_text without its "except TimeoutError" clause ahead of a re-raising handler
ExtractTextReraise(o) ==
    CASE o.kind = "ret" -> Ret(IF Truthy(o.val) THEN o.val ELSE NoneV)
      [] o.kind = "timeout" -> Raise(<<"TimeoutError">>)
      [] OTHER -> Ret(NoneV)

\* the try/except of extract_text around what run_with_timeout (or preprocessing) gave
ExtractText(o) ==
    CASE o.kind = "ret" -> Ret(IF Truthy(o.val) THEN o.val ELSE NoneV)
      [] o.kind = "timeout" -> Ret(NoneV)
      [] OTHER -> Ret(NoneV)

\* the try/except of extract_screen_text
ExtractScreenText(o) ==
    CASE o.kind = "ret" -> Ret(IF Truthy(o.val) THEN o.val ELSE NoneV)
      [] o.kind = "timeout" -> Ret(NoneV)
      [] OTHER -> Ret(NoneV)

Extract(m, o) == IF m = "fast" THEN ExtractScreenText(o) ELSE ExtractText(o)

\* process_images numbering its entries like its progress message (i+1)
ProcessEntryOneBased(i, r) ==
    IF r.kind = "ret"
    THEN [index |-> i + 1, text |-> r.val, success |-> r.val # NoneV]
    ELSE [index |-> i + 1, text |-> NoneV, success |-> FALSE, error |-> r.exc]

\* the entry process_images appends for image i (0-based) given what extraction did
ProcessEntry(i, r) ==
    IF r.kind = "ret"
    THEN [index |-> i, text |-> r.val, success |-> r.val # NoneV]
    ELSE [index |-> i, text |-> NoneV, success |-> FALSE, error |-> r.exc]

\* ------------------------------------------------------------------ run_with_timeout
\* _target_function without its call of _monitor_processes
WorkerEntryNoScan == "func"

\* where the body of _target_function begins: self._monitor_processes() (line 30)
WorkerEntry == "monitor"

\* run_with_timeout without the reset of self.result and self.exception
StartRwtNoReset(c, k, m, op, rec) ==
    /\ mgr' = [mgr EXCEPT ![m].pids = k]
    /\ heap' = [heap EXCEPT ![k] = <<>>]
    /\ worker' = [worker EXCEPT ![k] = [pc |-> WorkerEntry, m |-> m, op |-> op, cl |-> 0, idx |-> 0,
                                           helper |-> 0]]
    /\ caller' = [caller EXCEPT ![c] = [rec EXCEPT !.pc = "join", !.call = k]]
    /\ used' = k

\* lines 64-76: reset the instance fields, create the worker thread and start it
StartRwt(c, k, m, op, rec) ==
    /\ mgr' = [mgr EXCEPT ![m] = [result |-> NoneV, exception |-> NoExc, pids |-> k]]
    /\ heap' = [heap EXCEPT ![k] = <<>>]
    /\ worker' = [worker EXCEPT ![k] = [pc |-> WorkerEntry, m |-> m, op |-> op, cl |-> 0, idx |-> 0,
                                           helper |-> 0]]
    /\ caller' = [caller EXCEPT ![c] = [rec EXCEPT !.pc = "join", !.call = k]]
    /\ used' = k

\* the call gives o to its caller; the caller's frame above run_with_timeout continues
Finish(c, o) ==
    LET k == caller[c].call
        api == caller[c].api
        r == Extract(hist[k].m, o)
    IN /\ hist' = [hist EXCEPT ![k].outcome = o,
                               ![k].ext = IF api = "rwt" THEN Pending ELSE r]
       /\ caller' = [caller EXCEPT ![c] =
             IF api = "batch"
             THEN [@ EXCEPT !.pc = "loop", !.call = 0, !.cl = 0, !.idx = 0,
                            !.results = Append(@, ProcessEntry(caller[c].i, r)),
                            !.i = @ + 1]
             ELSE IdleCaller]

\* thread.is_alive() for the worker of call k
IsAliveInverted(k) == worker[k].pc = "done"

IsAlive(k) == worker[k].pc # "done"

\* the worker of call k is in the 2-second wait of its cleanup for a process that
\* was sent terminate() and has not exited
CleanupWaitStuck(k) ==
    /\ worker[k].pc = "proc_wait"
    /\ procs[heap[worker[k].cl][worker[k].idx]] = "tess"

\* thread.join(timeout=self.timeout) returns because the worker thread ended
JoinDone(c) ==
    /\ caller[c].pc = "join"
    /\ worker[caller[c].call].pc = "done"
    /\ caller' = [caller EXCEPT ![c].pc = "alive"]
    /\ UNCHANGED <<mgr, heap, worker, used, procs, signalled, hist, batchOut, resize, mon, fsys, sched>>

\* thread.join(timeout=self.timeout) returns because the timeout elapsed
JoinTimeout(c) ==
    /\ caller[c].pc = "join"
    /\ worker[caller[c].call].pc # "done"
    /\ caller' = [caller EXCEPT ![c].pc = "alive"]
    /\ hist' = [hist EXCEPT ![caller[c].call].aliveAtWaitEnd = TRUE,
                             ![caller[c].call].stuckAtWaitEnd = CleanupWaitStuck(caller[c].call)]
    /\ UNCHANGED <<mgr, heap, worker, used, procs, signalled, batchOut, resize, mon, fsys, sched>>

\* if thread.is_alive(): self._cleanup_processes() ...   (line 79)
AliveCheck(c) ==
    /\ caller[c].pc = "alive"
    /\ caller' = [caller EXCEPT ![c] =
          IF IsAlive(caller[c].call)
          THEN [@ EXCEPT !.pc = "cleanup", !.cl = mgr[worker[caller[c].call].m].pids, !.idx = 1]
          ELSE [@ EXCEPT !.pc = "exc"]]
    /\ hist' = [hist EXCEPT ![caller[c].call].aliveAtCheck = worker[caller[c].call].pc # "done"]
    /\ UNCHANGED <<mgr, heap, worker, used, procs, signalled, batchOut, resize, mon, fsys, sched>>

\* one iteration of the caller's _cleanup_processes loop; after the last one,
\* raise TimeoutError (line 82)
CallerCleanupStep(c) ==
    /\ caller[c].pc = "cleanup"
    /\ LET l == heap[caller[c].cl]
           n == caller[c].idx
       IN IF n > Len(l)
          THEN /\ Finish(c, Timeout)
               /\ UNCHANGED <<signalled>>
          ELSE /\ IF IsTarget(l[n])
                  THEN /\ signalled' = signalled \cup {l[n]}
                       /\ caller' = [caller EXCEPT ![c].pc = "proc_wait"]
                  ELSE /\ caller' = [caller EXCEPT ![c].idx = n + 1]
                       /\ UNCHANGED signalled
               /\ UNCHANGED hist
    /\ UNCHANGED <<mgr, heap, worker, used, procs, batchOut, resize, mon, fsys, sched>>

\* proc.wait(timeout=2) in the caller ends: the process is gone or 2 s passed
CallerWaitEnd(c) ==
    /\ caller[c].pc = "proc_wait"
    /\ caller' = [caller EXCEPT ![c].pc = "cleanup", ![c].idx = @ + 1]
    /\ UNCHANGED <<mgr, heap, worker, used, procs, signalled, hist, batchOut, resize, mon, fsys, sched>>

\* run_with_timeout without its check of self.exception
ExcCheckSkipped(c) ==
    /\ caller[c].pc = "exc"
    /\ caller' = [caller EXCEPT ![c].pc = "ret"]
    /\ UNCHANGED <<mgr, heap, worker, used, procs, signalled, hist, batchOut, resize, mon, fsys, sched>>

\* if self.exception: raise self.exception   (lines 85-86)
ExcCheck(c) ==
    /\ caller[c].pc = "exc"
    /\ LET e == mgr[worker[caller[c].call].m].exception
       IN IF e # NoExc
          THEN Finish(c, Raise(e))
          ELSE /\ caller' = [caller EXCEPT ![c].pc = "ret"]
               /\ UNCHANGED hist
    /\ UNCHANGED <<mgr, heap, worker, used, procs, signalled, batchOut, resize, mon, fsys, sched>>

\* return self.result   (line 88)
Return(c) ==
    /\ caller[c].pc = "ret"
    /\ Finish(c, Ret(mgr[worker[caller[c].call].m].result))
    /\ UNCHANGED <<mgr, heap, worker, used, procs, signalled, batchOut, resize, mon, fsys, sched>>

\* ------------------------------------------------------------------ worker thread
\* _monitor_processes: append the PID of every process named like tesseract to
\* the list the instance holds now; then func(*args, **kwargs) is entered with
\* the arguments the thread was created with (line 31)
WMonitor(k) ==
    /\ worker[k].pc = "monitor"
    /\ heap' = [heap EXCEPT ![mgr[worker[k].m].pids] = @ \o ScanFrom(1)]
    /\ worker' = [worker EXCEPT ![k].pc = "func"]
    /\ hist' = [hist EXCEPT ![k].scanned = TRUE,
                             ![k].invoked = Append(@, worker[k].op)]
    /\ UNCHANGED <<mgr, caller, used, procs, signalled, batchOut, resize, mon, fsys, sched>>

\* _target_function calling func again when func raised
WFuncRetry(k) ==
    /\ worker[k].pc = "func"
    /\ worker[k].op.kind # "hang"
    /\ IF worker[k].op.kind = "raise" /\ Len(hist[k].invoked) < 2
       THEN /\ hist' = [hist EXCEPT ![k].invoked = Append(@, worker[k].op)]
            /\ UNCHANGED <<mgr, worker>>
       ELSE /\ mgr' = [mgr EXCEPT ![worker[k].m] =
                  IF worker[k].op.kind = "ret"
                  THEN [@ EXCEPT !.result = worker[k].op.val]
                  ELSE [@ EXCEPT !.exception = worker[k].op.exc]]
            /\ worker' = [worker EXCEPT ![k].pc = "finally"]
            /\ hist' = [hist EXCEPT ![k].inTime =
                  \E c \in ConcCallers : caller[c].pc = "join" /\ caller[c].call = k]
    /\ UNCHANGED <<heap, caller, used, procs, signalled, batchOut, resize, mon, fsys, sched>>

\* self.result = func(*args, **kwargs) / except Exception as e: self.exception = e
WFunc(k) ==
    /\ worker[k].pc = "func"
    /\ worker[k].op.kind # "hang"
    /\ mgr' = [mgr EXCEPT ![worker[k].m] =
          IF worker[k].op.kind = "ret"
          THEN [@ EXCEPT !.result = worker[k].op.val]
          ELSE [@ EXCEPT !.exception = worker[k].op.exc]]
    /\ worker' = [worker EXCEPT ![k].pc = "finally"]
    /\ hist' = [hist EXCEPT ![k].inTime =
          \E c \in ConcCallers : caller[c].pc = "join" /\ caller[c].call = k]
    /\ UNCHANGED <<heap, caller, used, procs, signalled, batchOut, resize, mon, fsys, sched>>

\* func(*args, **kwargs) is running and starts its helper process (pytesseract
\* runs the tesseract binary); the operation waits for a helper that hangs
WSpawnHelper(k) ==
    /\ worker[k].pc = "func"
    /\ worker[k].op.kind = "hang"
    /\ worker[k].helper = 0
    /\ \E p \in Pids :
          /\ procs[p] = "none"
          /\ procs' = [procs EXCEPT ![p] = "tess"]
          /\ worker' = [worker EXCEPT ![k].helper = p]
    /\ hist' = [hist EXCEPT ![k].helperInTime =
          \E c \in ConcCallers : caller[c].pc = "join" /\ caller[c].call = k]
    /\ UNCHANGED <<mgr, heap, caller, used, signalled, batchOut, resize, mon, fsys, sched>>

\* finally: self._cleanup_processes() starts iterating the list the instance holds now
WCleanupBegin(k) ==
    /\ worker[k].pc = "finally"
    /\ worker' = [worker EXCEPT ![k].pc = "cleanup", ![k].cl = mgr[worker[k].m].pids,
                                ![k].idx = 1]
    /\ UNCHANGED <<mgr, heap, caller, used, procs, signalled, hist, batchOut, resize, mon, fsys, sched>>

\* one iteration of the worker's _cleanup_processes loop; after the last one the
\* thread ends
WCleanupStep(k) ==
    /\ worker[k].pc = "cleanup"
    /\ LET l == heap[worker[k].cl]
           n == worker[k].idx
       IN IF n > Len(l)
          THEN /\ worker' = [worker EXCEPT ![k].pc = "done"]
               /\ UNCHANGED signalled
          ELSE IF IsTarget(l[n])
               THEN /\ signalled' = signalled \cup {l[n]}
                    /\ worker' = [worker EXCEPT ![k].pc = "proc_wait"]
               ELSE /\ worker' = [worker EXCEPT ![k].idx = n + 1]
                    /\ UNCHANGED signalled
    /\ UNCHANGED <<mgr, heap, caller, used, procs, hist, batchOut, resize, mon, fsys, sched>>

\* proc.wait(timeout=2) in the worker ends
WWaitEnd(k) ==
    /\ worker[k].pc = "proc_wait"
    /\ worker' = [worker EXCEPT ![k].pc = "cleanup", ![k].idx = @ + 1]
    /\ UNCHANGED <<mgr, heap, caller, used, procs, signalled, hist, batchOut, resize, mon, fsys, sched>>

\* ------------------------------------------------------------------ callers
\* a client calls run_with_timeout(op) on its own TesseractTimeoutManager
CallRwt(c) ==
    /\ caller[c].pc = "idle"
    /\ used < MaxCalls
    /\ \E op \in DirectOps(used + 1) :
          /\ StartRwt(c, used + 1, "guard", op, [IdleCaller EXCEPT !.api = "rwt"])
          /\ hist' = [hist EXCEPT ![used + 1] =
                [NoHist EXCEPT !.api = "rwt", !.m = "guard", !.given = <<op>>]]
    /\ UNCHANGED <<procs, signalled, batchOut, resize, mon, fsys, sched>>

\* extract_text(image) / extract_screen_text(image): preprocess, then run_with_timeout
\* (the client keeps to the one extractor it started with)
CallExtract(c) ==
    /\ caller[c].pc = "idle"
    /\ used < MaxCalls
    /\ \E m \in {"quick", "fast"}, img \in Images :
          /\ \A j \in 1..used : hist[j].m = m
          /\ LET k == used + 1
                 h == [NoHist EXCEPT !.api = "extract", !.m = m, !.img = img]
             IN IF PreprocessRaises(img)
                THEN /\ hist' = [hist EXCEPT ![k] =
                           [h EXCEPT !.ext = Extract(m, Raise(<<"IOError">>))]]
                     /\ used' = k
                     /\ UNCHANGED <<mgr, heap, worker, caller>>
                ELSE /\ StartRwt(c, k, m, OcrOperation(img),
                                 [IdleCaller EXCEPT !.api = "extract"])
                     /\ hist' = [hist EXCEPT ![k] = [h EXCEPT !.given = <<OcrOperation(img)>>]]
    /\ UNCHANGED <<procs, signalled, batchOut, resize, mon, fsys, sched>>

BatchInputs == UNION {[1..n -> Images] : n \in 0..MaxBatch}

\* process_images(images, fast_mode): results = []
CallBatch(c) ==
    /\ caller[c].pc = "idle"
    /\ \E imgs \in BatchInputs, fast \in BOOLEAN :
          /\ used + Len(imgs) <= MaxCalls
          /\ \A j \in 1..used : hist[j].m = (IF fast THEN "fast" ELSE "quick")
          /\ caller' = [caller EXCEPT ![c] =
                [IdleCaller EXCEPT !.pc = "loop", !.api = "batch", !.images = imgs,
                                   !.fast = fast]]
    /\ UNCHANGED <<mgr, heap, worker, used, procs, signalled, hist, batchOut, resize, mon, fsys, sched>>

\* the for loop of process_images: take the next image, or return results
BatchStep(c) ==
    /\ caller[c].pc = "loop"
    /\ LET me == caller[c]
           m == IF me.fast THEN "fast" ELSE "quick"
           k == used + 1
       IN IF me.i >= Len(me.images)
          THEN /\ batchOut' = [done |-> TRUE, images |-> me.images, fast |-> me.fast,
                               results |-> me.results, slots |-> me.slots]
               /\ caller' = [caller EXCEPT ![c] = IdleCaller]
               /\ UNCHANGED <<mgr, heap, worker, used, hist>>
          ELSE LET img == me.images[me.i + 1]
                   h == [NoHist EXCEPT !.api = "batch", !.m = m, !.img = img]
               IN /\ UNCHANGED batchOut
                  /\ IF PreprocessRaises(img)
                     THEN LET r == Extract(m, Raise(<<"IOError">>))
                          IN /\ hist' = [hist EXCEPT ![k] = [h EXCEPT !.ext = r]]
                             /\ used' = k
                             /\ caller' = [caller EXCEPT ![c].i = @ + 1,
                                   ![c].results = Append(@, ProcessEntry(me.i, r)),
                                   ![c].slots = Append(@, k)]
                             /\ UNCHANGED <<mgr, heap, worker>>
                     ELSE /\ StartRwt(c, k, m, OcrOperation(img),
                                      [me EXCEPT !.slots = Append(@, k)])
                          /\ hist' = [hist EXCEPT ![k] = [h EXCEPT !.given = <<OcrOperation(img)>>]]
    /\ UNCHANGED <<procs, signalled, resize, mon, fsys, sched>>

\* ------------------------------------------------------------------ specifications
Threads ==
    \/ \E c \in ConcCallers : JoinDone(c)
    \/ \E c \in ConcCallers : JoinTimeout(c)
    \/ \E c \in ConcCallers : AliveCheck(c)
    \/ \E c \in ConcCallers : CallerCleanupStep(c)
    \/ \E c \in ConcCallers : CallerWaitEnd(c)
    \/ \E c \in ConcCallers : ExcCheck(c)
    \/ \E c \in ConcCallers : Return(c)
    \/ \E k \in CallIds : WMonitor(k)
    \/ \E k \in CallIds : WFunc(k)
    \/ \E k \in CallIds : WCleanupBegin(k)
    \/ \E k \in CallIds : WCleanupStep(k)
    \/ \E k \in CallIds : WWaitEnd(k)
    \/ \E p \in Pids : ProcSpawn(p)
    \/ \E p \in Pids : ProcExit(p)

Init == InitCommon /\ resize = NoResize /\ fsys = NoFiles

\* direct callers of one TesseractTimeoutManager
Next == (\E c \in Callers : CallRwt(c)) \/ Threads

Spec == Init /\ [][Next]_vars

\* callers of extract_text / extract_screen_text on one extractor
NextExtract == (\E c \in Callers : CallExtract(c)) \/ Threads

SpecExtract == Init /\ [][NextExtract]_vars

\* callers of process_images on one WorkingOCRBatch
NextBatch ==
    \/ \E c \in Callers : CallBatch(c)
    \/ \E c \in Callers : BatchStep(c)
    \/ Threads

SpecBatch == Init /\ [][NextBatch]_vars

\* direct callers whose operation runs a helper process of its own
NextHelper ==
    \/ \E c \in Callers : CallRwt(c)
    \/ \E k \in CallIds : WSpawnHelper(k)
    \/ Threads

SpecHelper == Init /\ [][NextHelper]_vars

\* one of two client threads calls run_with_timeout on the shared instance (the
\* threads are alike: the one that calls first is named 1)
ConcCallRwt(c) == used + 1 = c /\ CallRwt(c)

\* two client threads calling run_with_timeout on the same TesseractTimeoutManager
NextConcurrent == (\E c \in ConcCallers : ConcCallRwt(c)) \/ Threads

SpecConcurrent == Init /\ [][NextConcurrent]_vars

\* ------------------------------------------------------------------ preprocessing sizes
\* image.width > 2000 or image.height > 2000   (WorkingQuickOCR._preprocess_image)
QuickCap == 2000
\* image.width > 1500 or image.height > 1500   (WorkingFastScreenOCR._preprocess_for_speed)
FastCap == 1500
\* bits of the significand of a Python float (IEEE 754 binary64)
MantBits == 53
\* bits of one limb of a significand
LimbBits == 18

\* widths and heights tried: 1..MaxSmall and cap-1..cap+MaxOver
MaxSmall == 4
MaxOver == 106

RECURSIVE Pow2(_)
Pow2(k) == IF k = 0 THEN 1 ELSE 2 * Pow2(k - 1)

RECURSIVE BitLen(_)
BitLen(n) == IF n = 0 THEN 0 ELSE 1 + BitLen(n \div 2)

Limb == Pow2(LimbBits)
TopBits == MantBits - 2 * LimbBits

\* A positive float is [m, e]: m = <<m2, m1, m0>> holds the limbs of its
\* significand M = m2 * Limb^2 + m1 * Limb + m0, with 2^(MantBits - 1) <= M <
\* 2^MantBits, and its value is M * 2^(e - MantBits).

\* the float one unit in the last place above [m, e]
NextUp(m, e) ==
    IF m[3] + 1 < Limb THEN [m |-> <<m[1], m[2], m[3] + 1>>, e |-> e]
    ELSE IF m[2] + 1 < Limb THEN [m |-> <<m[1], m[2] + 1, 0>>, e |-> e]
    ELSE IF m[1] + 1 < Pow2(TopBits) THEN [m |-> <<m[1] + 1, 0, 0>>, e |-> e]
    ELSE [m |-> <<Pow2(TopBits - 1), 0, 0>>, e |-> e + 1]

\* n/d brought into [1/2, 1) by powers of two: n/d * 2^e is the quotient
RECURSIVE Normalize(_, _, _)
Normalize(n, d, e) ==
    IF n >= d THEN Normalize(n, 2 * d, e + 1)
    ELSE IF 2 * n < d THEN Normalize(2 * n, d, e - 1)
    ELSE [n |-> n, d |-> d, e |-> e]

\* a / b for Python ints: the float nearest the quotient (ties to even)
FloatDiv(a, b) ==
    LET nz == Normalize(a, b, 0)
        t2 == nz.n * Pow2(TopBits)
        m2 == t2 \div nz.d
        t1 == (t2 % nz.d) * Limb
        m1 == t1 \div nz.d
        t0 == (t1 % nz.d) * Limb
        m0 == t0 \div nz.d
        r == t0 % nz.d
        up == \/ 2 * r > nz.d
              \/ (2 * r = nz.d /\ m0 % 2 = 1)
    IN IF up THEN NextUp(<<m2, m1, m0>>, nz.e) ELSE [m |-> <<m2, m1, m0>>, e |-> nz.e]

\* x * f for a Python int x >= 1 and a float f: the float nearest the product
\* (ties to even)
FloatMulInt(x, f) ==
    LET p0 == x * f.m[3]
        l0 == p0 % Limb
        p1 == x * f.m[2] + p0 \div Limb
        l1 == p1 % Limb
        top == x * f.m[1] + p1 \div Limb
        s == BitLen(top) - TopBits
        k == Pow2(s)
        lift == Limb \div k
        m2 == top \div k
        m1 == (top % k) * lift + l1 \div k
        m0 == (l1 % k) * lift + l0 \div k
        r == l0 % k
        up == \/ 2 * r > k
              \/ (2 * r = k /\ m0 % 2 = 1)
        e == f.e + s
    IN IF up THEN NextUp(<<m2, m1, m0>>, e) ELSE [m |-> <<m2, m1, m0>>, e |-> e]

\* int(f): truncation
FloatTrunc(f) ==
    IF f.e <= 0 THEN 0
    ELSE IF f.e <= TopBits THEN f.m[1] \div Pow2(TopBits - f.e)
    ELSE f.m[1] * Pow2(f.e - TopBits) + f.m[2] \div Pow2(LimbBits + TopBits - f.e)

FloatLess(f, g) ==
    \/ f.e < g.e
    \/ /\ f.e = g.e
       /\ \/ f.m[1] < g.m[1]
          \/ (f.m[1] = g.m[1] /\ f.m[2] < g.m[2])
          \/ (f.m[1] = g.m[1] /\ f.m[2] = g.m[2] /\ f.m[3] < g.m[3])

\* max(cap / width, cap / height): the larger ratio taken for the smaller
RatioMax(cap, w, h) ==
    LET a == FloatDiv(cap, w)
        b == FloatDiv(cap, h)
    IN IF FloatLess(a, b) THEN b ELSE a

\* ratio = min(cap / image.width, cap / image.height)
Ratio(cap, w, h) ==
    LET a == FloatDiv(cap, w)
        b == FloatDiv(cap, h)
    IN IF FloatLess(b, a) THEN b ELSE a

\* new_size = (int(image.width * ratio), int(image.height * ratio))
NewSize(cap, w, h) ==
    LET ratio == Ratio(cap, w, h)
    IN <<FloatTrunc(FloatMulInt(w, ratio)), FloatTrunc(FloatMulInt(h, ratio))>>

\* preprocessing with the test and the target one pixel below the cap
PreprocessSizeLowCap(cap, w, h) ==
    IF w > cap - 1 \/ h > cap - 1 THEN NewSize(cap - 1, w, h) ELSE <<w, h>>

\* the size of the image preprocessing hands to the engine
PreprocessSize(cap, w, h) == IF w > cap \/ h > cap THEN NewSize(cap, w, h) ELSE <<w, h>>

CapOf(prof) == IF prof = "fast" THEN FastCap ELSE QuickCap

Dims(cap) == (1..MaxSmall) \cup ((cap - 1)..(cap + MaxOver))

InitResize ==
    /\ InitCommon
    /\ fsys = NoFiles
    /\ \E prof \in {"quick", "fast"} :
          \E w \in Dims(CapOf(prof)), h \in Dims(CapOf(prof)) :
              resize = [prof |-> prof, w |-> w, h |-> h, done |-> FALSE, out |-> <<0, 0>>]

\* WorkingQuickOCR._preprocess_image on a decoded image
PreprocessImage ==
    /\ resize.prof = "quick"
    /\ ~resize.done
    /\ resize' = [resize EXCEPT !.done = TRUE,
                                !.out = PreprocessSize(QuickCap, resize.w, resize.h)]
    /\ UNCHANGED <<mgr, heap, worker, caller, used, procs, signalled, hist, batchOut, mon, fsys, sched>>

\* WorkingFastScreenOCR._preprocess_for_speed on a decoded image
PreprocessForSpeed ==
    /\ resize.prof = "fast"
    /\ ~resize.done
    /\ resize' = [resize EXCEPT !.done = TRUE,
                                !.out = PreprocessSize(FastCap, resize.w, resize.h)]
    /\ UNCHANGED <<mgr, heap, worker, caller, used, procs, signalled, hist, batchOut, mon, fsys, sched>>

NextResize == PreprocessImage \/ PreprocessForSpeed

SpecResize == InitResize /\ [][NextResize]_vars

\* ------------------------------------------------------------------ claims
Completed(k) == hist[k].outcome # Pending

\* C1: a run_with_timeout call whose own operation returned V before the timeout
\* elapsed returns exactly V (no TimeoutError, no None in place of V, no other
\* call's value).
C1_PassThroughOnSuccess ==
    \A k \in CallIds :
        (hist[k].api = "rwt" /\ worker[k].op.kind = "ret" /\ hist[k].inTime /\ Completed(k))
            => hist[k].outcome = Ret(worker[k].op.val)

\* C2: a run_with_timeout call whose own operation raised E before the timeout
\* elapsed raises that same E.
C2_PassThroughOfErrors ==
    \A k \in CallIds :
        (hist[k].api = "rwt" /\ worker[k].op.kind = "raise" /\ hist[k].inTime /\ Completed(k))
            => hist[k].outcome = Raise(worker[k].op.exc)

\* C3 (as claimed): whenever the worker has not finished when the timeout wait
\* ends, the call raises TimeoutError.
C3_TimeoutWhenUnfinishedAtWaitEnd ==
    \A k \in CallIds :
        (hist[k].aliveAtWaitEnd /\ Completed(k)) => hist[k].outcome = Timeout

\* C3 (amended): whenever the worker is still alive at the is_alive() check that
\* follows the wait, the call raises TimeoutError: it returns no value and does
\* not raise the operation's exception.
C3_TimeoutWhenAliveAtCheck ==
    \A k \in CallIds :
        (hist[k].aliveAtCheck /\ Completed(k)) => hist[k].outcome = Timeout

C3_Witness ==
    \E k \in CallIds :
        hist[k].aliveAtCheck /\ hist[k].outcome = Timeout /\ worker[k].op.kind = "ret"

\* C4: after the single wait for the worker, the caller of run_with_timeout
\* does not wait on anything else before raising TimeoutError (in particular
\* not on a tracked process exiting).
C4_CallerWaitsOnlyForWorker ==
    \A c \in Callers : caller[c].pc # "proc_wait"

\* C5: extract_text and extract_screen_text never raise: for a timeout, an
\* engine error and a preprocessing error each returns None.
C5_ExtractNeverRaises ==
    \A k \in CallIds :
        /\ hist[k].ext.kind \in {"pending", "ret"}
        /\ (hist[k].ext # Pending
              /\ (PreprocessRaises(hist[k].img) \/ hist[k].outcome.kind \in {"timeout", "raise"}))
           => hist[k].ext = Ret(NoneV)

C5_Witness ==
    \E j, k \in CallIds :
        /\ hist[j].outcome = Timeout /\ hist[j].ext = Ret(NoneV)
        /\ hist[k].outcome.kind = "raise" /\ hist[k].ext = Ret(NoneV)

\* C6: process_images returns exactly one entry per input image, the j-th entry
\* (0-based) with index j, whatever mix of successes, timeouts and errors.
C6_OneEntryPerImageInOrder ==
    /\ \A c \in Callers :
          caller[c].api = "batch" =>
              /\ Len(caller[c].results) = caller[c].i
              /\ \A j \in 1..Len(caller[c].results) : caller[c].results[j].index = j - 1
    /\ batchOut.done =>
          /\ Len(batchOut.results) = Len(batchOut.images)
          /\ \A j \in 1..Len(batchOut.results) : batchOut.results[j].index = j - 1

C6_Witness ==
    /\ batchOut.done
    /\ Len(batchOut.images) = 2
    /\ batchOut.results[1].success = FALSE
    /\ batchOut.results[2].success = TRUE

\* the images of a finished batch whose own extraction failed: the engine raised,
\* preprocessing raised, or the call timed out
FailedImages ==
    {j \in 1..Len(batchOut.images) :
        \/ batchOut.images[j] \in {"bad", "err"}
        \/ hist[batchOut.slots[j]].outcome = Timeout}

\* C7: in process_images, when one image fails and every other image is valid
\* (the engine reads its text within the bound), the failing entry is marked
\* failed and every other entry is marked succeeded with the text of its own
\* image.
C7_BatchIndependence ==
    (batchOut.done /\ Cardinality(FailedImages) = 1
        /\ \A j \in 1..Len(batchOut.images) :
              j \notin FailedImages =>
                  /\ batchOut.images[j] \in {"A", "B"}
                  /\ hist[batchOut.slots[j]].inTime)
    => \A j \in 1..Len(batchOut.images) :
          IF j \in FailedImages
          THEN batchOut.results[j].success = FALSE
          ELSE /\ batchOut.results[j].success = TRUE
               /\ batchOut.results[j].text = Str(<<batchOut.images[j]>>)

\* C8: every entry of process_images for an image whose extraction timed out or
\* hit an engine error has success false and carries an error field.
C8_FailedEntryNamesError ==
    batchOut.done =>
        \A j \in 1..Len(batchOut.images) :
            (hist[batchOut.slots[j]].outcome.kind \in {"timeout", "raise"})
                => /\ batchOut.results[j].success = FALSE
                   /\ "error" \in DOMAIN batchOut.results[j]

\* C10: two extract_text calls on the same extractor with the same image (whose
\* engine calls both completed within the bound) return the same value.
C10_ExtractIdempotent ==
    \A j, k \in CallIds :
        (/\ hist[j].api = "extract" /\ hist[k].api = "extract"
         /\ hist[j].m = hist[k].m /\ hist[j].img = hist[k].img
         /\ hist[j].inTime /\ hist[k].inTime
         /\ hist[j].ext # Pending /\ hist[k].ext # Pending)
        => hist[j].ext = hist[k].ext

Downscaled == resize.done /\ (resize.w > CapOf(resize.prof) \/ resize.h > CapOf(resize.prof))

LongSide == IF resize.w > resize.h THEN resize.w ELSE resize.h

\* how far below the exactly proportional size (dim * cap / LongSide) the
\* computed size is, in units of 1/LongSide pixel
Shortfall(dim, got) == dim * CapOf(resize.prof) - got * LongSide

\* C9 (as claimed): for an image above the cap, both computed dimensions are at
\* most the cap and each differs from the exactly proportional size by less than
\* one pixel.
C9_DownscaleWithinLessThanOnePixel ==
    Downscaled =>
        /\ resize.out[1] <= CapOf(resize.prof) /\ resize.out[2] <= CapOf(resize.prof)
        /\ Shortfall(resize.w, resize.out[1]) < LongSide
        /\ Shortfall(resize.w, resize.out[1]) > -LongSide
        /\ Shortfall(resize.h, resize.out[2]) < LongSide
        /\ Shortfall(resize.h, resize.out[2]) > -LongSide

\* C9 (amended): for an image above the cap, both computed dimensions are at most
\* the cap, and each is at most the exactly proportional size and at most one
\* pixel below it.
C9_DownscaleWithinOnePixel ==
    Downscaled =>
        /\ resize.out[1] <= CapOf(resize.prof) /\ resize.out[2] <= CapOf(resize.prof)
        /\ Shortfall(resize.w, resize.out[1]) \in 0..LongSide
        /\ Shortfall(resize.h, resize.out[2]) \in 0..LongSide

C9_Witness ==
    /\ Downscaled
    /\ resize.prof = "quick"
    /\ resize.w > QuickCap /\ resize.h > QuickCap
    /\ resize.out[1] < resize.w /\ resize.out[2] = QuickCap

\* C11: extract_text / extract_screen_text keep an empty result distinct from a
\* failure: when run_with_timeout returned the empty string the function returns
\* the empty string, and it returns None only when the call timed out or raised
\* (or preprocessing raised).
C11_EmptyDistinctFromFailure ==
    \A k \in CallIds :
        (hist[k].api = "extract" /\ hist[k].ext # Pending) =>
            /\ hist[k].outcome = Ret(Str(<<>>)) => hist[k].ext = Ret(Str(<<>>))
            /\ hist[k].ext = Ret(NoneV) =>
                  \/ hist[k].outcome.kind \in {"timeout", "raise"}
                  \/ PreprocessRaises(hist[k].img)

\* C12: after a run_with_timeout call timed out, what its abandoned worker
\* produces later is discarded: no later call on the same instance returns that
\* value or raises that exception.
C12_AbandonedResultDiscarded ==
    \A j, k \in CallIds :
        (/\ j < k
         /\ hist[j].api = "rwt" /\ hist[k].api = "rwt" /\ hist[j].m = hist[k].m
         /\ hist[j].outcome = Timeout)
        => /\ hist[k].outcome # Ret(Str(<<"V", j>>))
           /\ hist[k].outcome # Raise(<<"E", j>>)

\* C13 (as claimed): the process-table scan of a call has completed before its
\* worker is dispatched, so the baseline is recorded from the moment the worker
\* exists (and so when the timeout fires).
C13_ScanBeforeDispatch ==
    \A k \in CallIds : worker[k].pc # "none" => hist[k].scanned

\* C13 (amended): the scan runs on the worker thread; it has completed whenever
\* that worker has invoked or is about to invoke the operation.
C13_ScanBeforeOperation ==
    \A k \in CallIds : worker[k].pc \notin {"none", "monitor"} => hist[k].scanned

C13_Witness ==
    \E k \in CallIds :
        /\ worker[k].pc = "func" /\ hist[k].scanned /\ heap[k] # <<>>
        /\ \E c \in Callers : caller[c].pc = "join" /\ caller[c].call = k

\* C14: when a call times out while the helper process its own operation spawned
\* (before the wait ended) is still running, the guard has sent that process
\* terminate() by the time it raises TimeoutError.
C14_OwnHelperTerminated ==
    \A k \in CallIds :
        (/\ hist[k].outcome = Timeout
         /\ hist[k].helperInTime
         /\ worker[k].helper \in Pids)
        => worker[k].helper \in signalled

\* the calls of the images of the running or finished batch whose operation has
\* been dispatched and has not returned or raised yet
Executing == {k \in CallIds : hist[k].api = "batch" /\ worker[k].pc \in {"monitor", "func"}}

\* C15 (as claimed): during process_images at most one OCR operation is executing
\* at any moment, also after an image timed out.
C15_AtMostOneOperation == Cardinality(Executing) <= 1

\* C15 (amended): the operation of a later image is started only after the call
\* for every earlier image has ended; an operation of an earlier image that is
\* still executing then belongs to a call that timed out.
C15_OverlapOnlyAfterTimeout ==
    \A j, k \in CallIds :
        (j < k /\ j \in Executing /\ hist[k].api = "batch" /\ worker[k].pc # "none")
            => hist[j].outcome = Timeout

C15_Witness ==
    \E j, k \in CallIds :
        /\ j < k /\ j \in Executing /\ k \in Executing
        /\ worker[j].pc = "func" /\ worker[k].pc = "func"
        /\ hist[j].outcome = Timeout

\* C16: a failure of best-effort cleanup never changes the outcome of
\* run_with_timeout: a call whose operation returned or raised within the bound
\* gives its caller that result or exception also when, at the end of the
\* caller's wait, the worker's cleanup is waiting for a process that does not
\* exit (no other worker is running).
C16_CleanupFailureKeepsOutcome ==
    \A k \in CallIds :
        (/\ hist[k].api = "rwt" /\ Completed(k) /\ hist[k].inTime
         /\ hist[k].stuckAtWaitEnd
         /\ \A j \in CallIds \ {k} : worker[j].pc \in {"none", "done"})
        => hist[k].outcome =
              (IF worker[k].op.kind = "ret" THEN Ret(worker[k].op.val)
               ELSE Raise(worker[k].op.exc))

\* what the operation of call k itself returned or raised
OwnOutcome(k) ==
    IF worker[k].op.kind = "ret" THEN Ret(worker[k].op.val) ELSE Raise(worker[k].op.exc)

\* C17: reusing one instance from two threads is unsafe, and only the reuse makes
\* it so: a call whose operation finished within the bound gives its caller
\* something else than TimeoutError or its own result or exception only when
\* another call was made on the same instance before it ended.
C17_WrongOutcomeOnlyByReuse ==
    \A k \in CallIds :
        (/\ hist[k].api = "rwt" /\ Completed(k) /\ hist[k].inTime
         /\ hist[k].outcome \notin {Timeout, OwnOutcome(k)})
        => \E j \in CallIds \ {k} : hist[j].api = "rwt" /\ hist[j].m = hist[k].m

\* two overlapping calls: one has returned the value of the other call's
\* operation (its own operation returned its own value within the bound) while
\* the other call is still in progress and has not timed out
C17_Witness ==
    \E j, k \in CallIds, c \in ConcCallers :
        /\ j # k
        /\ hist[k].inTime /\ worker[k].op.kind = "ret"
        /\ hist[k].outcome = Ret(Str(<<"V", j>>))
        /\ caller[c].call = j /\ caller[c].pc \in {"join", "alive", "exc", "ret"}
        /\ ~hist[j].aliveAtWaitEnd

\* C18: in sequential calls on one instance of which none raised TimeoutError,
\* each call gives its caller what its own operation returned or raised: None
\* for an operation returning None (not an earlier result), and never an
\* earlier call's exception.
C18_SequentialCallsIndependent ==
    \A k \in CallIds :
        (/\ hist[k].api = "rwt" /\ Completed(k)
         /\ \A j \in 1..k : hist[j].outcome # Timeout)
        => hist[k].outcome = OwnOutcome(k)

C18_Witness ==
    /\ hist[1].api = "rwt" /\ hist[2].api = "rwt"
    /\ hist[1].outcome = Raise(<<"E", 1>>)
    /\ worker[2].op = Ret(NoneV)
    /\ hist[2].outcome = Ret(NoneV)

\* no PID occurs twice in the list l
NoDuplicate(l) == \A a, b \in 1..Len(l) : l[a] = l[b] => a = b

\* C19: the tracked PID list of a call (the list the instance was given at the
\* start of the call) holds only what that call's own scan recorded: nothing
\* before the scan has run, and afterwards each PID at most once.
C19_TrackedOnlyOwnScan ==
    \A k \in CallIds :
        worker[k].pc # "none" =>
            IF hist[k].scanned THEN NoDuplicate(heap[k]) ELSE heap[k] = <<>>

\* ------------------------------------------------------------------ C20
\* the operation of call k has been entered by the worker of call k
Entered(k) == worker[k].pc \in {"func", "finally", "cleanup", "proc_wait", "done"}

\* C20: every run_with_timeout call starts one worker, and that worker invokes
\* the operation once, with the arguments the call was given; it is not invoked
\* again after the call timed out or raised.
C20_OneWorkerOneInvocation ==
    \A k \in CallIds :
        /\ (hist[k].given # <<>>) <=> (worker[k].pc # "none")
        /\ Len(hist[k].invoked) <= 1
        /\ Entered(k) => hist[k].invoked = hist[k].given
        /\ hist[k].invoked # <<>> => Entered(k) /\ worker[k].op = hist[k].given[1]

\* call 1 timed out or raised, its operation was invoked once, and a later call
\* has since run its own operation to the end
C20_Witness ==
    /\ hist[1].outcome.kind \in {"timeout", "raise"}
    /\ Len(hist[1].invoked) = 1
    /\ used = 2
    /\ worker[2].pc = "done"
    /\ Len(hist[2].invoked) = 1

\* ------------------------------------------------------------------ C21
\* C21: while every run_with_timeout call made so far had its operation return
\* or raise within the bound, no process has been sent a terminate signal.
C21_NoTerminateWhenInTime ==
    (used >= 1 /\ \A k \in 1..used : hist[k].inTime) => signalled = {}

\* ------------------------------------------------------------------ C22
\* C22: in what process_images returned, an entry has success = TRUE exactly when
\* the run_with_timeout call for its image returned (no timeout, no error); an
\* image whose recognised text is empty is marked succeeded.
C22_SuccessIffCompleted ==
    batchOut.done =>
        \A j \in 1..Len(batchOut.results) :
            batchOut.results[j].success <=>
                hist[batchOut.slots[j]].outcome.kind = "ret"

\* ------------------------------------------------------------------ C23
\* C23: an image whose width and height are both at most the cap of its profile
\* (2000 accurate, 1500 fast), the cap itself included, leaves preprocessing with
\* its width and height unchanged.
C23_UnchangedAtOrBelowCap ==
    (resize.done /\ resize.w <= CapOf(resize.prof) /\ resize.h <= CapOf(resize.prof))
        => resize.out = <<resize.w, resize.h>>

\* an image with a side exactly at the cap has been preprocessed
C23_Witness ==
    /\ resize.done
    /\ resize.w = CapOf(resize.prof)
    /\ resize.h <= CapOf(resize.prof)
    /\ resize.out = <<resize.w, resize.h>>

\* ------------------------------------------------------------------ C24
\* C24: for an image with width and height at least 1 that is downscaled, the
\* computed target size has width and height at least 1.
C24_TargetSizePositive ==
    (Downscaled /\ resize.w >= 1 /\ resize.h >= 1)
        => resize.out[1] >= 1 /\ resize.out[2] >= 1

\* ------------------------------------------------------------------ AdvancedMonitoringSystem
OcrIdle == <<mgr, heap, worker, caller, used, procs, signalled, hist, batchOut, resize, fsys, sched>>

\* start_monitoring: return if monitoring_active, else set it, create the loop
\* thread, keep it in monitoring_thread and start it
StartMonitoring ==
    /\ mon.client = "idle"
    /\ IF mon.active
       THEN UNCHANGED mon
       ELSE /\ mon.started < MaxLoops
            /\ mon' = [mon EXCEPT !.active = TRUE,
                                  !.started = @ + 1,
                                  !.thread = mon.started + 1,
                                  !.loops[mon.started + 1] = "check"]
    /\ UNCHANGED OcrIdle

\* stop_monitoring: monitoring_active = False, then join the thread if there is one
StopMonitoring ==
    /\ mon.client = "idle"
    /\ mon' = [mon EXCEPT !.active = FALSE,
                          !.client = IF mon.thread # 0 THEN "join" ELSE "idle"]
    /\ UNCHANGED OcrIdle

\* monitoring_thread.join(timeout=5) returns: the thread ended, or 5 s passed while
\* it was in a cycle or in its sleep of `interval` seconds
StopJoinEnd ==
    /\ mon.client = "join"
    /\ mon.loops[mon.thread] \in {"ended", "cycle", "sleep"}
    /\ mon' = [mon EXCEPT !.client = "idle"]
    /\ UNCHANGED OcrIdle

\* while self.monitoring_active:
LoopCheck(n) ==
    /\ mon.loops[n] = "check"
    /\ mon' = [mon EXCEPT !.loops[n] = IF mon.active THEN "cycle" ELSE "ended"]
    /\ UNCHANGED OcrIdle

\* one analysis cycle (analyse, store, generate metrics), or the except branch
LoopCycle(n) ==
    /\ mon.loops[n] = "cycle"
    /\ mon' = [mon EXCEPT !.loops[n] = "sleep"]
    /\ UNCHANGED OcrIdle

\* time.sleep(interval) / time.sleep(5) ends
LoopWake(n) ==
    /\ mon.loops[n] = "sleep"
    /\ mon' = [mon EXCEPT !.loops[n] = "check"]
    /\ UNCHANGED OcrIdle

NextMonitoring ==
    \/ StartMonitoring
    \/ StopMonitoring
    \/ StopJoinEnd
    \/ \E n \in LoopIds : LoopCheck(n)
    \/ \E n \in LoopIds : LoopCycle(n)
    \/ \E n \in LoopIds : LoopWake(n)

SpecMonitoring == Init /\ [][NextMonitoring]_vars

\* ------------------------------------------------------------------ C25
\* C25: whatever start_monitoring and stop_monitoring calls were made, at most one
\* monitoring loop thread is executing an analysis cycle.
C25_AtMostOneLoop ==
    Cardinality({n \in LoopIds : mon.loops[n] = "cycle"}) <= 1

\* ------------------------------------------------------------------ OCRIntegrationHelper
\* A file's text is the sequence content.split('\n') of its lines (never empty:
\* the empty file is the one line ""). Lines are told apart by what the code of
\* apply_fixes_to_file can tell apart:
\*   "import"  starts with 'import ', 'from ' or (stripped) 'try:'
\*   ""        blank
\*   "code"    any other line without an OCR call
\*   "ocr"     x = pytesseract.image_to_string(img)
\*   "ocr_cfg" text = pytesseract.image_to_string(img, config=cfg)
\*   "ocr_t"   x = pytesseract.image_to_string(img, timeout=5)
\*   "tpe"     a ThreadPoolExecutor ... future.result(timeout=5) block that is not
\*             of the exact form the long substitution pattern of line 177 expects
\*   "tpe_std" such a block of exactly that form
\*   "bad"     bytes that are not UTF-8
MaxLines == 2

LineKinds == {"import", "", "code", "ocr", "ocr_cfg", "ocr_t", "tpe", "tpe_std", "bad"}

Contents == UNION {[1..n -> LineKinds] : n \in 1..MaxLines}

\* generate_fixed_import: the block's text starts with '\n' and ends with '\n';
\* its fallback branch holds  return pytesseract.image_to_string(image, config='--psm 6')
ImportSection == <<"fix_head", "fix_fallback", "fix_tail">>

\* the for loop of lines 145-155 from line i on; gives <<import_lines, other_lines>>
RECURSIVE SplitImports(_, _, _, _, _)
SplitImports(lines, i, imp, oth, found) ==
    IF i > Len(lines) THEN <<imp, oth>>
    ELSE LET line == lines[i]
         IN IF line = "import"
            THEN SplitImports(lines, i + 1, Append(imp, line), oth, TRUE)
            ELSE IF found /\ line = ""
            THEN SplitImports(lines, i + 1, Append(imp, line), oth, found)
            ELSE SplitImports(lines, i + 1,
                              IF found /\ imp[Len(imp)] # "" THEN Append(imp, "") ELSE imp,
                              Append(oth, line), FALSE)

\* '\n'.join(import_lines) + import_section + '\n' + '\n'.join(other_lines), as lines
Reconstruct(content) ==
    LET parts == SplitImports(content, 1, <<>>, <<>>, FALSE)
    IN (IF parts[1] = <<>> THEN <<"">> ELSE parts[1])
       \o ImportSection \o <<"">>
       \o (IF parts[2] = <<>> THEN <<"">> ELSE parts[2])

\* re.sub of the first pattern: image_to_string(X) or image_to_string(X, config=...)
Pattern1(line) ==
    CASE line \in {"ocr", "ocr_cfg"} -> "safe"
      [] line = "fix_fallback" -> "fix_fallback_safe"
      [] OTHER -> line

\* re.sub of the second pattern: image_to_string(X, timeout=N)
Pattern2(line) == IF line = "ocr_t" THEN "safe_fast" ELSE line

\* re.sub of the third pattern: text = pytesseract.image_to_string(img, config=...)
Pattern3(line) == IF line = "ocr_cfg" THEN "safe" ELSE line

Sub1(text) == [i \in DOMAIN text |-> Pattern1(text[i])]
Sub2(text) == [i \in DOMAIN text |-> Pattern2(text[i])]
Sub3(text) == [i \in DOMAIN text |-> Pattern3(text[i])]

\* re.sub of the long ThreadPoolExecutor pattern (lines 176-181)
SubComplex(text) == [i \in DOMAIN text |-> IF text[i] = "tpe_std" THEN "safe_fast" ELSE text[i]]

Changed(a, b) == IF a # b THEN 1 ELSE 0

\* lines 160-183 on the reconstructed text: new_content and changes_made
Fixed(text) ==
    LET c1 == Sub1(text)
        c2 == Sub2(c1)
        c3 == Sub3(c2)
        complex == \E i \in DOMAIN c3 : c3[i] \in {"tpe", "tpe_std"}
    IN [new |-> IF complex THEN SubComplex(c3) ELSE c3,
        changes |-> Changed(text, c1) + Changed(c1, c2) + Changed(c2, c3)
                    + (IF complex THEN 1 ELSE 0)]

FixFrame == <<mgr, heap, worker, caller, used, procs, signalled, hist, batchOut, resize, mon, sched>>

InitFix ==
    /\ InitCommon
    /\ resize = NoResize
    /\ \E c \in Contents : fsys = [NoFiles EXCEPT !.target = c, !.orig = c, !.pc = "backup"]

\* backup_path = self.create_backup(file_path): copy2 succeeds, or raises before
\* backup_path is bound (then the handler has nothing to restore and returns False)
CreateBackup ==
    /\ fsys.pc = "backup"
    /\ \/ fsys' = [fsys EXCEPT !.backup = fsys.target, !.pc = "read"]
       \/ fsys' = [fsys EXCEPT !.failed = "backup", !.pc = "done", !.ret = "False"]
    /\ UNCHANGED FixFrame

\* content = file_path.read_text(encoding='utf-8') and lines 137-183
ReadAndFix ==
    /\ fsys.pc = "read"
    /\ IF \E i \in DOMAIN fsys.target : fsys.target[i] = "bad"
       THEN fsys' = [fsys EXCEPT !.failed = "read", !.pc = "except"]
       ELSE LET f == Fixed(Reconstruct(fsys.target))
            IN fsys' = [fsys EXCEPT !.new = f.new, !.changes = f.changes, !.pc = "decide"]
    /\ UNCHANGED FixFrame

\* if changes_made > 0: write_text(new_content), return True (the write may fail
\* after the file was truncated); else: copy the backup back, unlink it, return False
WriteOrRestore ==
    /\ fsys.pc = "decide"
    /\ IF fsys.changes > 0
       THEN \/ fsys' = [fsys EXCEPT !.target = fsys.new, !.pc = "done", !.ret = "True"]
            \/ fsys' = [fsys EXCEPT !.target = <<"">>, !.failed = "write", !.pc = "except"]
       ELSE fsys' = [fsys EXCEPT !.target = fsys.backup, !.backup = Missing,
                                 !.pc = "done", !.ret = "False"]
    /\ UNCHANGED FixFrame

\* the except clause returning False without copying the backup back
HandlerNoRestore ==
    /\ fsys.pc = "except"
    /\ fsys' = [fsys EXCEPT !.pc = "done", !.ret = "False"]
    /\ UNCHANGED FixFrame

\* except Exception: copy the backup over the target and return False; if that
\* copy raises too, the exception leaves apply_fixes_to_file
Handler ==
    /\ fsys.pc = "except"
    /\ \/ fsys' = [fsys EXCEPT !.target = fsys.backup, !.pc = "done", !.ret = "False"]
       \/ fsys' = [fsys EXCEPT !.pc = "done", !.ret = "raised"]
    /\ UNCHANGED FixFrame

NextFix == CreateBackup \/ ReadAndFix \/ WriteOrRestore \/ Handler

SpecFix == InitFix /\ [][NextFix]_vars

\* ------------------------------------------------------------------ C26
\* C26: when apply_fixes_to_file returned False the target file holds the content
\* it had before the call, and when it returned True the '.backup' file holds
\* the content the target had before the call.
C26_OriginalNeverLost ==
    /\ fsys.ret = "False" => fsys.target = fsys.orig
    /\ fsys.ret = "True" => fsys.backup = fsys.orig

\* the write failed after truncating the target, and the call returned False
C26_Witness ==
    /\ fsys.ret = "False"
    /\ fsys.failed = "write"
    /\ fsys.target = fsys.orig
    /\ \E i \in DOMAIN fsys.orig : fsys.orig[i] = "ocr"

\* ------------------------------------------------------------------ C27
\* C27: a call in which no step raised returns True and rewrites the target only
\* if a replacement changed an OCR call of the target's content; when none does,
\* the target keeps its original content and the backup is removed.
C27_RewriteOnlyIfOcrCallChanged ==
    (fsys.pc = "done" /\ fsys.failed = "none"
     /\ Sub3(Sub2(Sub1(fsys.orig))) = fsys.orig /\ SubComplex(fsys.orig) = fsys.orig)
        => /\ fsys.ret = "False"
           /\ fsys.target = fsys.orig
           /\ fsys.backup = Missing

\* ------------------------------------------------------------------ daily_scheduler
\* wait_for('message', timeout=1800): 30 minutes
WaitMinutes == 30

\* minutes the clock is followed for, from one minute before 16:00
MaxMinutes == 4

\* rows the scheduled_tasks table may hold
MaxTasks == 5

ConfigKinds == {"daily", "rss", "all"}

\* the rows configure_scheduler adds for a task_type, in insertion order
ConfiguredTasks(kind) ==
    (IF kind \in {"daily", "all"}
     THEN <<[type |-> "daily_reflection", time |-> T16]>> ELSE <<>>)
    \o (IF kind \in {"rss", "all"}
        THEN <<[type |-> "rss_news", time |-> T08], [type |-> "rss_news", time |-> T16],
               [type |-> "rss_news", time |-> T00]>>
        ELSE <<>>)

SchedFrame ==
    <<mgr, heap, worker, caller, used, procs, signalled, hist, batchOut, resize, mon, fsys>>

\* a setup command calls configure_scheduler: rows are added and the loop is
\* started if it is not running (commands are given before the clock moves on)
ConfigureScheduler(kind) ==
    /\ sched.pc \in {"off", "sleep"}
    /\ sched.last = -1
    /\ Len(sched.tasks) + Len(ConfiguredTasks(kind)) <= MaxTasks
    /\ sched' = [sched EXCEPT !.tasks = @ \o ConfiguredTasks(kind), !.pc = "sleep"]
    /\ UNCHANGED SchedFrame

\* tasks.loop(minutes=1) runs the body: current_time and the task rows are read once
LoopIterate ==
    /\ sched.pc = "sleep"
    /\ sched.last < sched.now
    /\ sched' = [sched EXCEPT !.pc = "iter", !.cur = sched.now, !.last = sched.now, !.i = 1]
    /\ UNCHANGED SchedFrame

\* one pass of the for loop: a task whose schedule_time equals current_time is
\* awaited; a reflection prompt returns at once (no channel, no user, an error
\* caught) or waits for the user's message; an rss task returns or its error is
\* caught; at the end of the rows the body returns
RunTask ==
    /\ sched.pc = "iter"
    /\ IF sched.i > Len(sched.tasks)
       THEN sched' = [sched EXCEPT !.pc = "sleep"]
       ELSE IF sched.tasks[sched.i].time # sched.cur
       THEN sched' = [sched EXCEPT !.i = @ + 1]
       ELSE LET begun == [sched EXCEPT !.started = @ \cup {<<sched.i, sched.now>>}]
            IN \/ sched' = [begun EXCEPT !.i = @ + 1]
               \/ /\ sched.tasks[sched.i].type = "daily_reflection"
                  /\ sched' = [begun EXCEPT !.pc = "wait", !.waited = 0]
    /\ UNCHANGED SchedFrame

\* wait_for returns the user's message, or raises TimeoutError after 30 minutes;
\* send_daily_reflection_prompt returns and the for loop goes on
ReplyOrTimeout ==
    /\ sched.pc = "wait"
    /\ sched' = [sched EXCEPT !.pc = "iter", !.i = @ + 1, !.waited = 0]
    /\ UNCHANGED SchedFrame

\* the clock reaches the next minute: while the body waits for a reply (for at
\* most 30 minutes), or after the body for this minute has returned
Tick ==
    /\ sched.now < T16 - 1 + MaxMinutes
    /\ \/ sched.pc = "wait" /\ sched.waited < WaitMinutes
       \/ sched.pc = "sleep" /\ sched.last = sched.now
    /\ sched' = [sched EXCEPT !.now = @ + 1,
                              !.waited = IF sched.pc = "wait" THEN @ + 1 ELSE @]
    /\ UNCHANGED SchedFrame

NextSched ==
    \/ \E kind \in ConfigKinds : ConfigureScheduler(kind)
    \/ LoopIterate
    \/ RunTask
    \/ ReplyOrTimeout
    \/ Tick

SpecSched == Init /\ [][NextSched]_vars

\* ------------------------------------------------------------------ C28
\* C28: every enabled task has been started in every minute gone by whose HH:MM
\* equals its schedule_time, whatever the other tasks did (raised, or waited for
\* a reflection reply).
C28_DueTaskStartedInItsMinute ==
    \A idx \in 1..Len(sched.tasks) :
        \A m \in (T16 - 1)..(T16 - 1 + MaxMinutes) :
            (sched.tasks[idx].time = m /\ m < sched.now) => <<idx, m>> \in sched.started

\* ------------------------------------------------------------------ C29
\* a _cleanup_processes loop, in the caller or in a worker, is at PID p of the
\* list it iterates
CleanupAt(p) ==
    \/ \E c \in ConcCallers :
          /\ caller[c].pc = "cleanup"
          /\ caller[c].idx <= Len(heap[caller[c].cl])
          /\ heap[caller[c].cl][caller[c].idx] = p
    \/ \E k \in CallIds :
          /\ worker[k].pc = "cleanup"
          /\ worker[k].idx <= Len(heap[worker[k].cl])
          /\ heap[worker[k].cl][worker[k].idx] = p

\* C29: a terminate signal goes only to a PID of the tracked list that a
\* _cleanup_processes loop is examining and whose process is, at that moment,
\* running under a name containing 'tesseract'; a tracked PID that has exited or
\* belongs to a process of another name is not terminated.
C29_TerminateOnlyRunningTesseract ==
    [][\A p \in Pids :
          (p \in signalled' /\ p \notin signalled) => (procs[p] = "tess" /\ CleanupAt(p))]_vars

\* the caller's cleanup has passed over a tracked PID that now belongs to a
\* process of another name, and nothing was terminated
C29_Witness ==
    \E c \in ConcCallers :
        /\ caller[c].pc = "cleanup"
        /\ caller[c].idx = 2
        /\ Len(heap[caller[c].cl]) >= 1
        /\ procs[heap[caller[c].cl][1]] = "other"
        /\ signalled = {}

====
